---- MODULE Spec2Model ----
(***************************************************************************)
(* Model of the Mars robot simulator: Robot (backend/src/models/Robot.js)  *)
(* driven by SimulationService.runSimulation.                              *)
(*                                                                         *)
(* One run is: the input is validated, a Robot is constructed from it, and *)
(* executeCommands walks the command list.  executeCommand recurses into   *)
(* itself through applyBackoffStrategy; the recursion is modelled by an    *)
(* explicit call stack of applyBackoffStrategy frames, one step of the     *)
(* model per executeCommand invocation.                                    *)
(***************************************************************************)
EXTENDS Integers, Sequences, FiniteSets, TLC

(***************************************************************************)
(* Bounds of the model.                                                    *)
(***************************************************************************)
MaxCmds == 2
MaxBattery == 3
MaxExecutions == 2

(***************************************************************************)
(* Alphabets.                                                              *)
(***************************************************************************)
Commands == {"F", "B", "L", "R", "S", "E"}
Facings == {"North", "South", "East", "West"}

(***************************************************************************)
(* Inputs.  The first two terrains and the battery of 50 are the ones the  *)
(* repository's tests use; the others are small maps on which every        *)
(* neighbourhood of free and blocked cells occurs.                         *)
(***************************************************************************)
TerrainA == << <<"Fe", "Fe", "Se">>, <<"W", "Si", "Obs">> >>
TerrainB == << <<"Fe", "Obs", "Se">>, <<"W", "Si", "Obs">> >>
TerrainCell == << <<"Zn">> >>
TerrainRow == << <<"Fe", "Si">> >>
TerrainColumn == << <<"Fe">>, <<"Obs">>, <<"W">> >>
Terrains == {TerrainA, TerrainB, TerrainCell, TerrainRow, TerrainColumn}

TestBattery == 50
LowTestBattery == 5
Batteries == (0..MaxBattery) \cup {TestBattery, LowTestBattery}

TurnCommands == { <<"L", "L", "L", "L">>, <<"R", "R", "R", "R">> }
TestCommands == { <<"F", "S", "R", "F">>, <<"S", "F">> } \cup TurnCommands
CommandLists == (UNION {[1..n -> Commands] : n \in 1..MaxCmds}) \cup TestCommands

VARIABLES
  input,    \* the input of runSimulation: terrain, battery, commands, initialPosition
  robot,    \* the Robot's fields
  stack,    \* active applyBackoffStrategy calls, innermost last
  i,        \* executeCommands: number of commands taken from the list
  success,  \* executeCommands: return value of the last executeCommand
  pc,       \* where the run is: "validate", "loop", "done", "threw" or "search"
  result,   \* the value returned by executeCommands, or the error thrown
  calls,    \* history: the executeCommand calls made by executeCommands
  last,     \* history: the most recent executeCommand invocation, at any depth
  request,  \* the object passed to runSimulation, before it is validated
  executions, \* number of executeCommands calls made on the robot
  search,   \* PathfindingService.findPath: the workspace of the search
  plan      \* PathfindingService.generateMissionPlan: its locals and its result

vars == <<input, robot, stack, i, success, pc, result, calls, last,
          request, executions, search, plan>>

terrain == input.terrain

(***************************************************************************)
(* Robot: the constructor.                                                 *)
(***************************************************************************)
\* the strategies with the first two exchanged: the left turn is tried first.
backoffStrategies_LeftFirst ==
  << <<"E", "L", "F">>,
     <<"E", "R", "F">>,
     <<"E", "L", "L", "F">>,
     <<"E", "B", "R", "F">>,
     <<"E", "B", "B", "L", "F">>,
     <<"E", "F", "F">>,
     <<"E", "F", "L", "F", "L", "F">> >>

backoffStrategies ==
  << <<"E", "R", "F">>,
     <<"E", "L", "F">>,
     <<"E", "L", "L", "F">>,
     <<"E", "B", "R", "F">>,
     <<"E", "B", "B", "L", "F">>,
     <<"E", "F", "F">>,
     <<"E", "F", "L", "F", "L", "F">> >>

NewRobot(battery, initialPosition) ==
  [ battery |-> battery,
    position |-> [ x |-> initialPosition.location.x,
                   y |-> initialPosition.location.y,
                   facing |-> initialPosition.facing ],
    visitedCells |-> << [X |-> initialPosition.location.x,
                         Y |-> initialPosition.location.y] >>,
    samplesCollected |-> << >>,
    currentBackoffStrategy |-> 0 ]

(***************************************************************************)
(* Robot: terrain queries.  Coordinates are 0-based as in the code; rows   *)
(* are indexed by y, columns by x.                                         *)
(***************************************************************************)
OutOfBounds(x, y) ==
  y < 0 \/ y >= Len(terrain) \/ x < 0 \/ x >= Len(terrain[1])

\* isObstacle that tests the bounds only.
IsObstacle_BoundsOnly(x, y) == OutOfBounds(x, y)

IsObstacle(x, y) ==
  IF OutOfBounds(x, y) THEN TRUE ELSE terrain[y + 1][x + 1] = "Obs"

GetTerrainType(x, y) ==
  IF OutOfBounds(x, y) THEN "null" ELSE terrain[y + 1][x + 1]

\* getNextPosition that ignores the command and always steps forward.
GetNextPosition_AlwaysForward(r, command) ==
  LET p == r.position
  IN  CASE p.facing = "North" -> [x |-> p.x, y |-> p.y - 1]
        [] p.facing = "South" -> [x |-> p.x, y |-> p.y + 1]
        [] p.facing = "East"  -> [x |-> p.x + 1, y |-> p.y]
        [] p.facing = "West"  -> [x |-> p.x - 1, y |-> p.y]

GetNextPosition(r, command) ==
  LET direction == IF command = "F" THEN 1 ELSE -1
      p == r.position
  IN  CASE p.facing = "North" -> [x |-> p.x, y |-> p.y - direction]
        [] p.facing = "South" -> [x |-> p.x, y |-> p.y + direction]
        [] p.facing = "East"  -> [x |-> p.x + direction, y |-> p.y]
        [] p.facing = "West"  -> [x |-> p.x - direction, y |-> p.y]

\* AddVisitedCell without the alreadyVisited test.
AddVisitedCell_AlwaysPush(cells, x, y) ==
  Append(cells, [X |-> x, Y |-> y])

AddVisitedCell(cells, x, y) ==
  LET alreadyVisited == \E k \in 1..Len(cells) : cells[k].X = x /\ cells[k].Y = y
  IN  IF ~alreadyVisited THEN Append(cells, [X |-> x, Y |-> y]) ELSE cells

GetBatteryConsumption(command) ==
  CASE command \in {"F", "B"} -> 3
    [] command \in {"L", "R"} -> 2
    [] command = "S" -> 8
    [] command = "E" -> 1

(***************************************************************************)
(* The outcome of one executeCommand invocation: the robot it leaves, and  *)
(* either its return value or, when it has entered a backoff strategy      *)
(* whose commands are still to run, "pending" with that strategy.          *)
(***************************************************************************)
Returns(r, value) == [robot |-> r, returns |-> value, strategy |-> << >>]

\* the invocation ends by throw new Error(`Unknown command: ...`)
Throws(r) == [robot |-> r, returns |-> "throws", strategy |-> << >>]

\* applyBackoffStrategy that wraps round to the first strategy instead of failing.
ApplyBackoffStrategy_Wrap(r) ==
  LET k == r.currentBackoffStrategy % Len(backoffStrategies)
  IN  [ robot |-> [r EXCEPT !.currentBackoffStrategy = k + 1],
        returns |-> "pending",
        strategy |-> backoffStrategies[k + 1] ]

\* applyBackoffStrategy that forgets to consume the strategy it takes.
ApplyBackoffStrategy_NoIncrement(r) ==
  IF r.currentBackoffStrategy >= Len(backoffStrategies)
  THEN Returns(r, "false")
  ELSE [ robot |-> r,
         returns |-> "pending",
         strategy |-> backoffStrategies[r.currentBackoffStrategy + 1] ]

ApplyBackoffStrategy(r) ==
  IF r.currentBackoffStrategy >= Len(backoffStrategies)
  THEN Returns(r, "false")
  ELSE [ robot |-> [r EXCEPT !.currentBackoffStrategy = @ + 1],
         returns |-> "pending",
         strategy |-> backoffStrategies[r.currentBackoffStrategy + 1] ]

\* moveForward that pays its cost before it looks at the destination.
MoveForward_PayFirst(r) ==
  LET nextPosition == GetNextPosition(r, "F")
      paid == [r EXCEPT !.battery = @ - 3]
  IN  IF IsObstacle(nextPosition.x, nextPosition.y)
      THEN ApplyBackoffStrategy(paid)
      ELSE Returns([paid EXCEPT !.position.x = nextPosition.x,
                                !.position.y = nextPosition.y,
                                !.visitedCells = AddVisitedCell(@, nextPosition.x, nextPosition.y),
                                !.currentBackoffStrategy = 0], "true")

MoveForward(r) ==
  LET nextPosition == GetNextPosition(r, "F")
  IN  IF IsObstacle(nextPosition.x, nextPosition.y)
      THEN ApplyBackoffStrategy(r)
      ELSE Returns([r EXCEPT !.battery = @ - 3,
                             !.position.x = nextPosition.x,
                             !.position.y = nextPosition.y,
                             !.visitedCells = AddVisitedCell(@, nextPosition.x, nextPosition.y),
                             !.currentBackoffStrategy = 0], "true")

MoveBackward(r) ==
  LET nextPosition == GetNextPosition(r, "B")
  IN  IF IsObstacle(nextPosition.x, nextPosition.y)
      THEN ApplyBackoffStrategy(r)
      ELSE Returns([r EXCEPT !.battery = @ - 3,
                             !.position.x = nextPosition.x,
                             !.position.y = nextPosition.y,
                             !.visitedCells = AddVisitedCell(@, nextPosition.x, nextPosition.y),
                             !.currentBackoffStrategy = 0], "true")

\* turnLeft with one entry of its table wrong.
TurnLeft_WrongEntry(r) ==
  LET f == r.position.facing
      g == CASE f = "North" -> "West"
             [] f = "West"  -> "North"
             [] f = "South" -> "East"
             [] f = "East"  -> "North"
  IN  Returns([r EXCEPT !.battery = @ - 2, !.position.facing = g], "true")

TurnLeft(r) ==
  LET f == r.position.facing
      g == CASE f = "North" -> "West"
             [] f = "West"  -> "South"
             [] f = "South" -> "East"
             [] f = "East"  -> "North"
  IN  Returns([r EXCEPT !.battery = @ - 2, !.position.facing = g], "true")

TurnRight(r) ==
  LET f == r.position.facing
      g == CASE f = "North" -> "East"
             [] f = "East"  -> "South"
             [] f = "South" -> "West"
             [] f = "West"  -> "North"
  IN  Returns([r EXCEPT !.battery = @ - 2, !.position.facing = g], "true")

\* takeSample that forgets to pay.
TakeSample_NoCost(r) ==
  LET terrainType == GetTerrainType(r.position.x, r.position.y)
  IN  Returns([r EXCEPT !.samplesCollected =
                           IF terrainType # "null" /\ terrainType # "Obs"
                           THEN Append(@, terrainType) ELSE @], "true")

\* takeSample that keeps one sample per terrain type.
TakeSample_Dedupe(r) ==
  LET terrainType == GetTerrainType(r.position.x, r.position.y)
      held == \E k \in 1..Len(r.samplesCollected) : r.samplesCollected[k] = terrainType
  IN  Returns([r EXCEPT !.battery = @ - 8,
                        !.samplesCollected =
                           IF terrainType # "null" /\ terrainType # "Obs" /\ ~held
                           THEN Append(@, terrainType) ELSE @], "true")

TakeSample(r) ==
  LET terrainType == GetTerrainType(r.position.x, r.position.y)
  IN  Returns([r EXCEPT !.battery = @ - 8,
                        !.samplesCollected =
                           IF terrainType # "null" /\ terrainType # "Obs"
                           THEN Append(@, terrainType) ELSE @], "true")

\* extendSolarPanels that forgets the cost of 1.
ExtendSolarPanels_NoCost(r) ==
  Returns([r EXCEPT !.battery = @ + 10], "true")

ExtendSolarPanels(r) ==
  Returns([r EXCEPT !.battery = (@ - 1) + 10], "true")

Dispatch(r, command) ==
  CASE command = "F" -> MoveForward(r)
    [] command = "B" -> MoveBackward(r)
    [] command = "L" -> TurnLeft(r)
    [] command = "R" -> TurnRight(r)
    [] command = "S" -> TakeSample(r)
    [] command = "E" -> ExtendSolarPanels(r)

\* executeCommand without the battery test.
ExecuteCommand_NoCheck(r, command) == Dispatch(r, command)

\* executeCommand that recharges and then goes on to apply the command.
ExecuteCommand_RechargeThenApply(r, command) ==
  LET batteryNeeded == GetBatteryConsumption(command)
      charged == IF r.battery < batteryNeeded /\ r.battery >= 1
                 THEN ExtendSolarPanels(r).robot ELSE r
  IN  IF charged.battery < batteryNeeded
      THEN Returns(charged, "false")
      ELSE Dispatch(charged, command)

\* executeCommand that fails whenever the battery does not cover the cost.
ExecuteCommand_NoRecharge(r, command) ==
  LET batteryNeeded == GetBatteryConsumption(command)
  IN  IF r.battery < batteryNeeded
      THEN Returns(r, "false")
      ELSE Dispatch(r, command)

\* executeCommand that throws where the battery cannot pay for anything.
RECURSIVE ExecuteCommand_ThrowOnStall(_, _)
ExecuteCommand_ThrowOnStall(r, command) ==
  IF command \notin {"F", "B", "L", "R", "S", "E"}
  THEN Throws(r)
  ELSE LET batteryNeeded == GetBatteryConsumption(command)
       IN  IF r.battery < batteryNeeded
           THEN IF r.battery >= 1 THEN ExecuteCommand_ThrowOnStall(r, "E") ELSE Throws(r)
           ELSE Dispatch(r, command)

RECURSIVE ExecuteCommand(_, _)
ExecuteCommand(r, command) ==
  IF command \notin {"F", "B", "L", "R", "S", "E"}
  THEN Throws(r)
  ELSE LET batteryNeeded == GetBatteryConsumption(command)
       IN  IF r.battery < batteryNeeded
           THEN IF r.battery >= 1 THEN ExecuteCommand(r, "E") ELSE Returns(r, "false")
           ELSE Dispatch(r, command)

GetResult(r) ==
  [ VisitedCells |-> r.visitedCells,
    SamplesCollected |-> r.samplesCollected,
    Battery |-> r.battery,
    FinalPosition |-> [ Location |-> [X |-> r.position.x, Y |-> r.position.y],
                        Facing |-> r.position.facing ] ]

(***************************************************************************)
(* The call stack.  A frame is one applyBackoffStrategy call: its strategy *)
(* and the index (1-based) of the next command of the for loop.  When a    *)
(* sub-command returns true the loops that have run out of commands        *)
(* return true in turn.                                                    *)
(***************************************************************************)
Frame(strategy) == [strategy |-> strategy, next |-> 1]

Top(s) == s[Len(s)]

Pop(s) == SubSeq(s, 1, Len(s) - 1)

Advance(s) == [s EXCEPT ![Len(s)].next = @ + 1]

RECURSIVE ReturnTrue(_)
ReturnTrue(s) ==
  IF s = << >> THEN s
  ELSE IF Top(s).next > Len(Top(s).strategy) THEN ReturnTrue(Pop(s))
  ELSE s

(***************************************************************************)
(* The stack after an invocation with outcome o made from stack s (the     *)
(* caller's loop has already moved to its next command).                   *)
(***************************************************************************)
StackAfter(s, o) ==
  CASE o.returns = "pending" -> Append(s, Frame(o.strategy))
    [] o.returns = "true"    -> ReturnTrue(s)
    [] o.returns = "false"   -> << >>
    [] o.returns = "throws"  -> << >>

Invocation(command, before, depth, o) ==
  [command |-> command, before |-> before, depth |-> depth, returns |-> o.returns]

SetReturn(cs, value) == [cs EXCEPT ![Len(cs)].returns = value]

(***************************************************************************)
(* Valid inputs: the ones SimulationService.validateInput accepts.         *)
(***************************************************************************)
ValidInput(in) ==
  /\ Len(in.terrain) > 0
  /\ Len(in.terrain[1]) > 0
  /\ \A y \in 1..Len(in.terrain) : Len(in.terrain[y]) = Len(in.terrain[1])
  /\ in.battery >= 0
  /\ Len(in.commands) > 0
  /\ \A k \in 1..Len(in.commands) : in.commands[k] \in Commands
  /\ in.initialPosition.facing \in Facings
  /\ LET x == in.initialPosition.location.x
         y == in.initialPosition.location.y
     IN  /\ ~(y < 0 \/ y >= Len(in.terrain) \/ x < 0 \/ x >= Len(in.terrain[1]))
         /\ in.terrain[y + 1][x + 1] # "Obs"

(***************************************************************************)
(* The request as runSimulation receives it: every part carries its        *)
(* JavaScript type, so that validateInput can be modelled on parts that    *)
(* are absent or of the wrong type.                                        *)
(***************************************************************************)
Undefined == [kind |-> "undefined"]

Number(n) == [kind |-> "number", value |-> n]

String(str) == [kind |-> "string", value |-> str]

Array(a) == [kind |-> "array", value |-> a]

Object(o) == [kind |-> "object", value |-> o]

Request(in) ==
  [ terrain |-> Array(in.terrain),
    battery |-> Number(in.battery),
    commands |-> Array(in.commands),
    initialPosition |->
      Object([ location |-> Object([x |-> Number(in.initialPosition.location.x),
                                    y |-> Number(in.initialPosition.location.y)]),
               facing |-> String(in.initialPosition.facing) ]) ]

\* the error executeCommand and getBatteryConsumption throw
UnknownCommand == "Unknown command"

\* no search is going on
NoSearch == [phase |-> "idle"]

\* generateMissionPlan has not been called
NoPlan == [phase |-> "idle"]

Positions(t) ==
  { [location |-> [x |-> x, y |-> y], facing |-> f] :
      x \in 0..(Len(t[1]) - 1), y \in 0..(Len(t) - 1), f \in Facings }

Init ==
  /\ \E t \in Terrains : \E b \in Batteries : \E cs \in CommandLists : \E p \in Positions(t) :
       input = [terrain |-> t, battery |-> b, commands |-> cs, initialPosition |-> p]
  /\ ValidInput(input)
  /\ robot = NewRobot(input.battery, input.initialPosition)
  /\ stack = << >>
  /\ i = 0
  /\ success = TRUE
  /\ pc = "loop"
  /\ result = "none"
  /\ calls = << >>
  /\ last = [command |-> "none", before |-> robot, depth |-> 0, returns |-> "none"]
  /\ request = Request(input)
  /\ executions = 1
  /\ search = NoSearch
  /\ plan = NoPlan

\* executeCommands whose loop does not break on a failed command.
ExecuteNext_NoBreak ==
  /\ pc = "loop"
  /\ stack = << >>
  /\ i < Len(input.commands)
  /\ LET command == input.commands[i + 1]
         o == ExecuteCommand(robot, command)
     IN  /\ robot' = o.robot
         /\ stack' = StackAfter(stack, o)
         /\ i' = i + 1
         /\ success' = (o.returns # "false")
         /\ calls' = Append(calls, [command |-> command, before |-> robot,
                                    returns |-> o.returns])
         /\ last' = Invocation(command, robot, 0, o)
         /\ pc' = IF o.returns = "throws" THEN "threw" ELSE pc
         /\ result' = IF o.returns = "throws" THEN UnknownCommand ELSE result
  /\ UNCHANGED <<input, request, executions, search, plan>>

(***************************************************************************)
(* executeCommands: the loop body, for the next command of the list.       *)
(***************************************************************************)
ExecuteNext ==
  /\ pc = "loop"
  /\ stack = << >>
  /\ success
  /\ i < Len(input.commands)
  /\ LET command == input.commands[i + 1]
         o == ExecuteCommand(robot, command)
     IN  /\ robot' = o.robot
         /\ stack' = StackAfter(stack, o)
         /\ i' = i + 1
         /\ success' = (o.returns # "false")
         /\ calls' = Append(calls, [command |-> command, before |-> robot,
                                    returns |-> o.returns])
         /\ last' = Invocation(command, robot, 0, o)
         /\ pc' = IF o.returns = "throws" THEN "threw" ELSE pc
         /\ result' = IF o.returns = "throws" THEN UnknownCommand ELSE result
  /\ UNCHANGED <<input, request, executions, search, plan>>

(***************************************************************************)
(* applyBackoffStrategy: the loop body of the innermost active strategy.   *)
(***************************************************************************)
StrategyStep ==
  /\ pc = "loop"
  /\ stack # << >>
  /\ LET command == Top(stack).strategy[Top(stack).next]
         o == ExecuteCommand(robot, command)
         s == StackAfter(Advance(stack), o)
     IN  /\ robot' = o.robot
         /\ stack' = s
         /\ success' = (o.returns # "false")
         /\ calls' = IF s = << >> THEN SetReturn(calls, o.returns) ELSE calls
         /\ last' = Invocation(command, robot, Len(stack), o)
         /\ pc' = IF o.returns = "throws" THEN "threw" ELSE pc
         /\ result' = IF o.returns = "throws" THEN UnknownCommand ELSE result
  /\ UNCHANGED <<input, i, request, executions, search, plan>>

(***************************************************************************)
(* executeCommands: the loop has ended, the result is returned.            *)
(***************************************************************************)
ReturnResult ==
  /\ pc = "loop"
  /\ stack = << >>
  /\ (~success \/ i = Len(input.commands))
  /\ result' = GetResult(robot)
  /\ pc' = "done"
  /\ UNCHANGED <<input, robot, stack, i, success, calls, last,
                 request, executions, search, plan>>

Next == ExecuteNext \/ StrategyStep \/ ReturnResult

Spec == Init /\ [][Next]_vars

(***************************************************************************)
(* SimulationService.validateInput, on a request whose parts carry their   *)
(* type: the message of the error it throws, or "ok".  The tests follow    *)
(* the order of the code.                                                  *)
(***************************************************************************)
IsArray(v) == v.kind = "array"

\* !v of JavaScript, for the kinds of the model: undefined/null, 0, ""
Falsy(v) ==
  \/ v.kind = "undefined"
  \/ (v.kind = "number" /\ v.value = 0)
  \/ (v.kind = "string" /\ v.value = "")

\* validateInput that does not test the symbols of the commands.
ValidateInput_NoAlphabet(req) ==
  IF Falsy(req.terrain) \/ ~IsArray(req.terrain) THEN "Terrain must be a non-empty 2D array"
  ELSE IF Len(req.terrain.value) = 0 THEN "Terrain must be a non-empty 2D array"
  ELSE IF \/ Len(req.terrain.value[1]) = 0
          \/ \E k \in 1..Len(req.terrain.value) :
                Len(req.terrain.value[k]) # Len(req.terrain.value[1])
       THEN "Terrain must be a valid 2D array with consistent row lengths"
  ELSE IF req.battery.kind # "number" THEN "Battery must be a non-negative number"
  ELSE IF req.battery.value < 0 THEN "Battery must be a non-negative number"
  ELSE IF Falsy(req.commands) \/ ~IsArray(req.commands) THEN "Commands must be a non-empty array"
  ELSE IF Len(req.commands.value) = 0 THEN "Commands must be a non-empty array"
  ELSE IF Falsy(req.initialPosition) THEN "Initial position is required"
  ELSE IF Falsy(req.initialPosition.value.location)
       THEN "Initial position must have valid x and y coordinates"
  ELSE IF \/ req.initialPosition.value.location.value.x.kind # "number"
          \/ req.initialPosition.value.location.value.y.kind # "number"
       THEN "Initial position must have valid x and y coordinates"
  ELSE IF Falsy(req.initialPosition.value.facing)
       THEN "Initial position must have a valid facing direction"
  ELSE IF req.initialPosition.value.facing.value \notin {"North", "South", "East", "West"}
       THEN "Initial position must have a valid facing direction"
  ELSE LET x == req.initialPosition.value.location.value.x.value
           y == req.initialPosition.value.location.value.y.value
       IN  IF \/ y < 0 \/ y >= Len(req.terrain.value)
              \/ x < 0 \/ x >= Len(req.terrain.value[1])
           THEN "Initial position is out of terrain bounds"
           ELSE IF req.terrain.value[y + 1][x + 1] = "Obs"
           THEN "Initial position cannot be an obstacle"
           ELSE "ok"

ValidateInput(req) ==
  IF Falsy(req.terrain) \/ ~IsArray(req.terrain) THEN "Terrain must be a non-empty 2D array"
  ELSE IF Len(req.terrain.value) = 0 THEN "Terrain must be a non-empty 2D array"
  ELSE IF \/ Len(req.terrain.value[1]) = 0
          \/ \E k \in 1..Len(req.terrain.value) :
                Len(req.terrain.value[k]) # Len(req.terrain.value[1])
       THEN "Terrain must be a valid 2D array with consistent row lengths"
  ELSE IF req.battery.kind # "number" THEN "Battery must be a non-negative number"
  ELSE IF req.battery.value < 0 THEN "Battery must be a non-negative number"
  ELSE IF Falsy(req.commands) \/ ~IsArray(req.commands) THEN "Commands must be a non-empty array"
  ELSE IF Len(req.commands.value) = 0 THEN "Commands must be a non-empty array"
  ELSE IF \E k \in 1..Len(req.commands.value) :
             req.commands.value[k] \notin {"F", "B", "L", "R", "S", "E"}
       THEN "Commands must be one of: F, B, L, R, S, E"
  ELSE IF Falsy(req.initialPosition) THEN "Initial position is required"
  ELSE IF Falsy(req.initialPosition.value.location)
       THEN "Initial position must have valid x and y coordinates"
  ELSE IF \/ req.initialPosition.value.location.value.x.kind # "number"
          \/ req.initialPosition.value.location.value.y.kind # "number"
       THEN "Initial position must have valid x and y coordinates"
  ELSE IF Falsy(req.initialPosition.value.facing)
       THEN "Initial position must have a valid facing direction"
  ELSE IF req.initialPosition.value.facing.value \notin {"North", "South", "East", "West"}
       THEN "Initial position must have a valid facing direction"
  ELSE LET x == req.initialPosition.value.location.value.x.value
           y == req.initialPosition.value.location.value.y.value
       IN  IF \/ y < 0 \/ y >= Len(req.terrain.value)
              \/ x < 0 \/ x >= Len(req.terrain.value[1])
           THEN "Initial position is out of terrain bounds"
           ELSE IF req.terrain.value[y + 1][x + 1] = "Obs"
           THEN "Initial position cannot be an obstacle"
           ELSE "ok"

\* const { terrain, battery, commands, initialPosition } = input
Destructure(req) ==
  [ terrain |-> req.terrain.value,
    battery |-> req.battery.value,
    commands |-> req.commands.value,
    initialPosition |->
      [ location |-> [x |-> req.initialPosition.value.location.value.x.value,
                      y |-> req.initialPosition.value.location.value.y.value],
        facing |-> req.initialPosition.value.facing.value ] ]

(***************************************************************************)
(* Requests: the parts the service tests use, well-formed and malformed,   *)
(* in every combination.                                                   *)
(***************************************************************************)
Pose(x, y, facing) ==
  Object([location |-> Object([x |-> Number(x), y |-> Number(y)]), facing |-> facing])

RequestTerrains ==
  << Undefined,
     Array(<< >>),
     Array(<< << >> >>),
     Array(<< <<"Fe">>, <<"W", "Si">> >>),
     Array(<< <<"Fe", "Obs">>, <<"W", "Si">> >>),
     Array(TerrainCell) >>

RequestBatteries ==
  << Undefined, String("invalid"), Number(-1), Number(0), Number(LowTestBattery) >>

RequestCommands ==
  << Undefined, Array(<< >>), Array(<<"F", "X">>), Array(<<"X">>),
     Array(<<"F">>), Array(<<"S", "F">>) >>

RequestPositions ==
  << Undefined,
     Object([location |-> Undefined, facing |-> String("East")]),
     Object([location |-> Object([x |-> Undefined, y |-> Number(0)]),
             facing |-> String("East")]),
     Pose(0, 0, String("Invalid")),
     Pose(0, 0, Undefined),
     Pose(5, 0, String("East")),
     Pose(0, 2, String("East")),
     Pose(0, -1, String("North")),
     Pose(-1, 0, String("North")),
     Pose(1, 0, String("East")),
     Pose(0, 0, String("East")),
     Pose(0, 1, String("North")) >>

\* before the constructor has run there is no robot and no destructured input
NoRobot ==
  [ battery |-> 0,
    position |-> [x |-> 0, y |-> 0, facing |-> "North"],
    visitedCells |-> << >>,
    samplesCollected |-> << >>,
    currentBackoffStrategy |-> 0 ]

NoInput ==
  [ terrain |-> << >>, battery |-> 0, commands |-> << >>,
    initialPosition |-> [location |-> [x |-> 0, y |-> 0], facing |-> "North"] ]

InitService ==
  /\ \E t \in 1..Len(RequestTerrains) : \E b \in 1..Len(RequestBatteries) :
       \E c \in 1..Len(RequestCommands) : \E p \in 1..Len(RequestPositions) :
         request = [ terrain |-> RequestTerrains[t], battery |-> RequestBatteries[b],
                     commands |-> RequestCommands[c],
                     initialPosition |-> RequestPositions[p] ]
  /\ input = NoInput
  /\ robot = NoRobot
  /\ stack = << >>
  /\ i = 0
  /\ success = TRUE
  /\ pc = "validate"
  /\ result = "none"
  /\ calls = << >>
  /\ last = [command |-> "none", before |-> NoRobot, depth |-> 0, returns |-> "none"]
  /\ executions = 0
  /\ search = NoSearch
  /\ plan = NoPlan

(***************************************************************************)
(* runSimulation up to the call of executeCommands: validateInput throws,  *)
(* or the robot is constructed.                                            *)
(***************************************************************************)
RunSimulation ==
  /\ pc = "validate"
  /\ LET outcome == ValidateInput(request)
     IN  IF outcome # "ok"
         THEN /\ pc' = "threw"
              /\ result' = outcome
              /\ UNCHANGED <<input, robot, last, executions>>
         ELSE /\ pc' = "loop"
              /\ input' = Destructure(request)
              /\ robot' = NewRobot(input'.battery, input'.initialPosition)
              /\ last' = [last EXCEPT !.before = robot']
              /\ executions' = 1
              /\ UNCHANGED result
  /\ UNCHANGED <<stack, i, success, calls, request, search, plan>>

NextService == RunSimulation \/ ExecuteNext \/ StrategyStep \/ ReturnResult

SpecService == InitService /\ [][NextService]_vars

(***************************************************************************)
(* A robot that is kept and given executeCommands again, as the command    *)
(* line interface does.  getResult puts the robot's own visitedCells and   *)
(* samplesCollected arrays into the result, and addVisitedCell and         *)
(* takeSample push onto those arrays: whoever holds an earlier result      *)
(* reads the arrays as they are now.  Battery and FinalPosition are        *)
(* copied into the result.                                                 *)
(***************************************************************************)
HeldResult(returned, r) ==
  [ VisitedCells |-> r.visitedCells,
    SamplesCollected |-> r.samplesCollected,
    Battery |-> returned.Battery,
    FinalPosition |-> returned.FinalPosition ]

LaterCommands == {<<command>> : command \in Commands}

InitReuse ==
  /\ Init
  /\ input.terrain \in {TerrainA, TerrainRow}
  /\ input.battery \in {TestBattery, LowTestBattery}
  /\ Len(input.commands) = 1

ExecuteCommandsAgain ==
  /\ pc = "done"
  /\ executions < MaxExecutions
  /\ \E commands \in LaterCommands : input' = [input EXCEPT !.commands = commands]
  /\ i' = 0
  /\ success' = TRUE
  /\ pc' = "loop"
  /\ executions' = executions + 1
  /\ UNCHANGED <<robot, stack, result, calls, last, request, search, plan>>

NextReuse == ExecuteNext \/ StrategyStep \/ ReturnResult \/ ExecuteCommandsAgain

SpecReuse == InitReuse /\ [][NextReuse]_vars

(***************************************************************************)
(* PathfindingService.  Its terrain is the terrain of the input; position  *)
(* keys are the triples the key strings are made of and parsed into.       *)
(***************************************************************************)
\* the costs as amounts added to the battery
commandCosts_Signed == [F |-> -3, B |-> -3, L |-> -2, R |-> -2, S |-> -8, E |-> 9]

commandCosts == [F |-> 3, B |-> 3, L |-> 2, R |-> 2, S |-> 8, E |-> -9]

GetPositionKey(position) == <<position.x, position.y, position.facing>>

ParsePositionKey(key) == [x |-> key[1], y |-> key[2], facing |-> key[3]]

Abs(n) == IF n < 0 THEN -n ELSE n

ManhattanDistance(a, b) == Abs(a.x - b.x) + Abs(a.y - b.y)

\* a heuristic that counts every cell three times
Heuristic_Triple(position, target) == 3 * ManhattanDistance(position, target)

Heuristic(position, target) == ManhattanDistance(position, target)

directions == <<"North", "East", "South", "West">>

IndexOf(facing) == CHOOSE k \in 1..4 : directions[k] = facing

\* indexOf is 0-based: directions[(currentIndex + 3) % 4], directions[(currentIndex + 1) % 4]
GetNewFacing(facing, command) ==
  CASE command = "L" -> directions[(((IndexOf(facing) - 1) + 3) % 4) + 1]
    [] command = "R" -> directions[(((IndexOf(facing) - 1) + 1) % 4) + 1]
    [] OTHER -> facing

PathGetNextPosition(position, command) ==
  LET direction == IF command = "F" THEN 1 ELSE -1
  IN  CASE position.facing = "North" -> [position EXCEPT !.y = @ - direction]
        [] position.facing = "South" -> [position EXCEPT !.y = @ + direction]
        [] position.facing = "East"  -> [position EXCEPT !.x = @ + direction]
        [] position.facing = "West"  -> [position EXCEPT !.x = @ - direction]

PathIsObstacle(x, y) ==
  IF y < 0 \/ y >= Len(terrain) \/ x < 0 \/ x >= Len(terrain[1])
  THEN TRUE
  ELSE terrain[y + 1][x + 1] = "Obs"

Move(position, command) == [position |-> position, command |-> command]

\* getPossibleMoves that never offers the backward move
GetPossibleMoves_NoBackward(position) ==
  LET forwardPosition == PathGetNextPosition(position, "F")
  IN  << Move([position EXCEPT !.facing = GetNewFacing(position.facing, "L")], "L"),
         Move([position EXCEPT !.facing = GetNewFacing(position.facing, "R")], "R") >>
      \o (IF ~PathIsObstacle(forwardPosition.x, forwardPosition.y)
          THEN << Move(forwardPosition, "F") >> ELSE << >>)
      \o << Move(position, "E") >>

GetPossibleMoves(position) ==
  LET forwardPosition == PathGetNextPosition(position, "F")
      backwardPosition == PathGetNextPosition(position, "B")
  IN  << Move([position EXCEPT !.facing = GetNewFacing(position.facing, "L")], "L"),
         Move([position EXCEPT !.facing = GetNewFacing(position.facing, "R")], "R") >>
      \o (IF ~PathIsObstacle(forwardPosition.x, forwardPosition.y)
          THEN << Move(forwardPosition, "F") >> ELSE << >>)
      \o (IF ~PathIsObstacle(backwardPosition.x, backwardPosition.y)
          THEN << Move(backwardPosition, "B") >> ELSE << >>)
      \o << Move(position, "E") >>

\* Map.set
MapSet(map, key, value) ==
  [k \in (DOMAIN map) \cup {key} |-> IF k = key THEN value ELSE map[k]]

\* Map.delete
MapDelete(map, key) == [k \in (DOMAIN map) \ {key} |-> map[k]]

EmptyMap == [k \in {} |-> 0]

(***************************************************************************)
(* PriorityQueue: elements.sort is stable, so an element is placed behind  *)
(* the elements whose priority is not larger than its own.                 *)
(***************************************************************************)
RECURSIVE Insert(_, _, _)
Insert(sorted, element, priorities) ==
  IF sorted = << >> THEN <<element>>
  ELSE IF priorities[sorted[Len(sorted)]] - priorities[element] > 0
       THEN Insert(SubSeq(sorted, 1, Len(sorted) - 1), element, priorities)
              \o <<sorted[Len(sorted)]>>
       ELSE sorted \o <<element>>

RECURSIVE Sort(_, _)
Sort(elements, priorities) ==
  IF elements = << >> THEN << >>
  ELSE CHOOSE all \in {Insert(front, elements[Len(elements)], priorities) :
                         front \in {Sort(SubSeq(elements, 1, Len(elements) - 1), priorities)}} :
         TRUE

Enqueue(queue, element, priority) ==
  LET priorities == MapSet(queue.priorities, element, priority)
  IN  [elements |-> Sort(queue.elements \o <<element>>, priorities),
       priorities |-> priorities]

\* a queue that hands out its first element and keeps it
Dequeue_Peek(queue) == [element |-> Head(queue.elements), queue |-> queue]

\* a queue that hands out its last element
Dequeue_Last(queue) ==
  [element |-> queue.elements[Len(queue.elements)],
   queue |-> [elements |-> SubSeq(queue.elements, 1, Len(queue.elements) - 1),
              priorities |-> MapDelete(queue.priorities, queue.elements[Len(queue.elements)])]]

Dequeue(queue) ==
  [element |-> Head(queue.elements),
   queue |-> [elements |-> Tail(queue.elements),
              priorities |-> MapDelete(queue.priorities, Head(queue.elements))]]

QueueContains(queue, element) == element \in DOMAIN queue.priorities

\* findPath up to the while loop
StartSearch(start, target, initialBattery) ==
  LET startKey == GetPositionKey(start)
  IN  [ phase |-> "running",
        start |-> start, target |-> target, initialBattery |-> initialBattery,
        openSet |-> Enqueue([elements |-> << >>, priorities |-> EmptyMap],
                            startKey, Heuristic(start, target)),
        closedSet |-> {},
        cameFrom |-> EmptyMap,
        gScore |-> MapSet(EmptyMap, startKey, 0),
        fScore |-> MapSet(EmptyMap, startKey, Heuristic(start, target)),
        batteryLevels |-> MapSet(EmptyMap, startKey, initialBattery),
        commandSequences |-> MapSet(EmptyMap, startKey, << >>),
        commands |-> << >>, battery |-> initialBattery, success |-> FALSE ]

\* one pass of the body of the for loop over possibleMoves
Relax(s, currentKey, move) ==
  LET neighbor == move.position
      command == move.command
      neighborKey == GetPositionKey(neighbor)
      batteryCost == commandCosts[command]
      currentBattery == s.batteryLevels[currentKey]
      newBattery == currentBattery + batteryCost
      tentativeGScore == s.gScore[currentKey] + 1
      fNeighbor == tentativeGScore + Heuristic(neighbor, s.target)
  IN  IF neighborKey \in s.closedSet THEN s
      ELSE IF newBattery <= 0 THEN s
      ELSE IF neighborKey \notin DOMAIN s.gScore \/ tentativeGScore < s.gScore[neighborKey]
           THEN [ s EXCEPT
                    !.cameFrom = MapSet(@, neighborKey, [key |-> currentKey, command |-> command]),
                    !.gScore = MapSet(@, neighborKey, tentativeGScore),
                    !.fScore = MapSet(@, neighborKey, fNeighbor),
                    !.batteryLevels = MapSet(@, neighborKey, newBattery),
                    !.commandSequences =
                       MapSet(@, neighborKey, Append(s.commandSequences[currentKey], command)),
                    !.openSet = IF ~QueueContains(@, neighborKey)
                                THEN Enqueue(@, neighborKey, fNeighbor)
                                ELSE @ ]
           ELSE s

\* the for loop: the maps after one move are the maps the next move starts
\* with (next is bound to their value, computed once)
RECURSIVE RelaxAll(_, _, _)
RelaxAll(s, currentKey, moves) ==
  IF moves = << >> THEN s
  ELSE CHOOSE after \in {RelaxAll(next, currentKey, Tail(moves)) :
                           next \in {Relax(s, currentKey, Head(moves))}} : TRUE

\* terrains of the search: a wall to go around, and open ground
TerrainDetour == << <<"Fe", "Obs", "Se">>, <<"W", "Obs", "Si">>, <<"Zn", "Fe", "Fe">> >>
TerrainOpen == << <<"Fe", "Fe", "Se">>, <<"W", "Si", "Zn">>, <<"Fe", "Se", "W">> >>
PathTerrains == {TerrainA, TerrainB, TerrainRow, TerrainColumn, TerrainDetour, TerrainOpen}

PathBatteries == (0..MaxBattery) \cup {LowTestBattery, TestBattery}

Cells(t) == {[x |-> x, y |-> y] : x \in 0..(Len(t[1]) - 1), y \in 0..(Len(t) - 1)}

\* a call of findPath on one of the terrains with one of the batteries
InitSearch(terrains, batteries) ==
  /\ \E t \in terrains : input = [NoInput EXCEPT !.terrain = t]
  /\ \E start \in Positions(input.terrain), target \in Cells(input.terrain),
        initialBattery \in batteries :
       /\ ~PathIsObstacle(start.location.x, start.location.y)
       /\ search = StartSearch([x |-> start.location.x, y |-> start.location.y,
                                facing |-> start.facing], target, initialBattery)
  /\ robot = NoRobot
  /\ stack = << >>
  /\ i = 0
  /\ success = TRUE
  /\ pc = "findPath"
  /\ result = "none"
  /\ calls = << >>
  /\ last = [command |-> "none", before |-> NoRobot, depth |-> 0, returns |-> "none"]
  /\ request = Request(input)
  /\ executions = 0
  /\ plan = NoPlan

InitPath == InitSearch(PathTerrains, PathBatteries)

UnchangedRobot ==
  UNCHANGED <<input, robot, stack, i, success, pc, result, calls, last, request, executions,
              plan>>

\* an iteration of the while loop that takes a position off the target cell
FindPathExpand ==
  /\ pc = "findPath"
  /\ search.phase = "running"
  /\ search.openSet.elements # << >>
  /\ LET d == Dequeue(search.openSet)
         currentKey == d.element
         current == ParsePositionKey(currentKey)
     IN  /\ ~(current.x = search.target.x /\ current.y = search.target.y)
         /\ search' = RelaxAll([search EXCEPT !.openSet = d.queue,
                                              !.closedSet = @ \cup {currentKey}],
                               currentKey, GetPossibleMoves(current))
  /\ UnchangedRobot

\* the iteration that takes a position on the target cell
FindPathReturn ==
  /\ pc = "findPath"
  /\ search.phase = "running"
  /\ search.openSet.elements # << >>
  /\ LET d == Dequeue(search.openSet)
         currentKey == d.element
         current == ParsePositionKey(currentKey)
     IN  /\ current.x = search.target.x /\ current.y = search.target.y
         /\ search' = [search EXCEPT !.openSet = d.queue,
                                     !.phase = "returned",
                                     !.commands = search.commandSequences[currentKey],
                                     !.battery = search.batteryLevels[currentKey],
                                     !.success = TRUE]
  /\ UnchangedRobot

\* findPath that gives up while one position is still open
FindPathFail_Early ==
  /\ pc = "findPath"
  /\ search.phase = "running"
  /\ Len(search.openSet.elements) <= 1
  /\ search' = [search EXCEPT !.phase = "returned",
                              !.commands = << >>,
                              !.battery = search.initialBattery,
                              !.success = FALSE]
  /\ UnchangedRobot

\* the open set is empty
FindPathFail ==
  /\ pc = "findPath"
  /\ search.phase = "running"
  /\ search.openSet.elements = << >>
  /\ search' = [search EXCEPT !.phase = "returned",
                              !.commands = << >>,
                              !.battery = search.initialBattery,
                              !.success = FALSE]
  /\ UnchangedRobot

NextPath == FindPathExpand \/ FindPathReturn \/ FindPathFail

SpecPath == InitPath /\ [][NextPath]_vars

\* the while loop goes on as long as it can: findPath has no other wait
InitPathFair == InitSearch({TerrainB, TerrainColumn}, {TestBattery})

SpecPathFair == InitPathFair /\ [][NextPath]_vars /\ WF_vars(NextPath)

(***************************************************************************)
(* findPath on a wider terrain, where a position of the open set is        *)
(* reached a second time with fewer commands.                              *)
(***************************************************************************)
TerrainMaze ==
  << <<"Fe", "Fe",  "Fe",  "Fe", "Fe",  "Obs">>,
     <<"Fe", "Obs", "Obs", "Fe", "Fe",  "Fe">>,
     <<"Fe", "Fe",  "Fe",  "Fe", "Obs", "Fe">> >>

InitMaze == InitSearch({TerrainMaze}, {TestBattery})

SpecMaze == InitMaze /\ [][NextPath]_vars

(***************************************************************************)
(* findPath as a function: the while loop run to its return.               *)
(***************************************************************************)
Iterate(s) ==
  IF s.openSet.elements = << >>
  THEN [s EXCEPT !.phase = "returned", !.commands = << >>,
                 !.battery = s.initialBattery, !.success = FALSE]
  ELSE LET d == Dequeue(s.openSet)
           currentKey == d.element
           current == ParsePositionKey(currentKey)
       IN  IF current.x = s.target.x /\ current.y = s.target.y
           THEN [s EXCEPT !.openSet = d.queue,
                          !.phase = "returned",
                          !.commands = s.commandSequences[currentKey],
                          !.battery = s.batteryLevels[currentKey],
                          !.success = TRUE]
           ELSE RelaxAll([s EXCEPT !.openSet = d.queue,
                                   !.closedSet = @ \cup {currentKey}],
                         currentKey, GetPossibleMoves(current))

RECURSIVE RunSearch(_)
RunSearch(s) == IF s.phase = "returned" THEN s ELSE RunSearch(Iterate(s))

FindPath(start, target, initialBattery) ==
  LET s == RunSearch(StartSearch(start, target, initialBattery))
  IN  [commands |-> s.commands, battery |-> s.battery, success |-> s.success]

(***************************************************************************)
(* generateMissionPlan.  A Set keeps its elements in the order they were   *)
(* added, so the terrain types and the locations of a type are sequences   *)
(* in the order of the scan, row by row.                                   *)
(***************************************************************************)
rows == Len(terrain)

cols == Len(terrain[1])

\* the cell with number n of the scan, n from 0
ScanCell(n) == [x |-> n % cols, y |-> n \div cols]

SeqContains(seq, e) == \E k \in 1..Len(seq) : seq[k] = e

RECURSIVE TerrainTypesUpTo(_)
TerrainTypesUpTo(n) ==
  IF n = 0 THEN << >>
  ELSE LET before == TerrainTypesUpTo(n - 1)
           terrainType == terrain[ScanCell(n - 1).y + 1][ScanCell(n - 1).x + 1]
       IN  IF terrainType # "Obs" /\ ~SeqContains(before, terrainType)
           THEN Append(before, terrainType)
           ELSE before

TerrainTypes == TerrainTypesUpTo(rows * cols)

RECURSIVE LocationsUpTo(_, _)
LocationsUpTo(terrainType, n) ==
  IF n = 0 THEN << >>
  ELSE IF terrain[ScanCell(n - 1).y + 1][ScanCell(n - 1).x + 1] = terrainType
       THEN Append(LocationsUpTo(terrainType, n - 1), ScanCell(n - 1))
       ELSE LocationsUpTo(terrainType, n - 1)

FindTerrainLocations(terrainType) == LocationsUpTo(terrainType, rows * cols)

Targets ==
  [k \in 1..Len(TerrainTypes) |->
     [type |-> TerrainTypes[k], locations |-> FindTerrainLocations(TerrainTypes[k])]]

\* Math.min(...locations.map(loc => manhattanDistance(start, loc)))
MinDistance(start, locations) ==
  CHOOSE d \in {ManhattanDistance(start, locations[k]) : k \in 1..Len(locations)} :
    \A k \in 1..Len(locations) : d <= ManhattanDistance(start, locations[k])

RECURSIVE InsertTarget(_, _, _)
InsertTarget(sorted, target, start) ==
  IF sorted = << >> THEN <<target>>
  ELSE IF MinDistance(start, sorted[Len(sorted)].locations)
            - MinDistance(start, target.locations) > 0
       THEN InsertTarget(SubSeq(sorted, 1, Len(sorted) - 1), target, start)
              \o <<sorted[Len(sorted)]>>
       ELSE sorted \o <<target>>

\* targets.sort that leaves the targets in the order of the scan
SortTargets_Scan(targets, start) == targets

\* targets.sort((a, b) => aDistance - bDistance), a stable sort
RECURSIVE SortTargets(_, _)
SortTargets(targets, start) ==
  IF targets = << >> THEN << >>
  ELSE InsertTarget(SortTargets(SubSeq(targets, 1, Len(targets) - 1), start),
                    targets[Len(targets)], start)

NoPath == [found |-> FALSE]

\* the inner loop that takes the first successful path, whatever its length
RECURSIVE BestPath_First(_, _, _, _)
BestPath_First(currentPosition, locations, currentBattery, best) ==
  IF locations = << >> THEN best
  ELSE LET path == FindPath(currentPosition, Head(locations), currentBattery)
       IN  BestPath_First(currentPosition, Tail(locations), currentBattery,
                          IF path.success /\ ~best.found
                          THEN [found |-> TRUE, location |-> Head(locations), path |-> path]
                          ELSE best)

\* for (const location of locations): bestLocation and bestPath
RECURSIVE BestPath(_, _, _, _)
BestPath(currentPosition, locations, currentBattery, best) ==
  IF locations = << >> THEN best
  ELSE LET path == FindPath(currentPosition, Head(locations), currentBattery)
           better == IF best.found
                     THEN Len(path.commands) < Len(best.path.commands)
                     ELSE TRUE
       IN  BestPath(currentPosition, Tail(locations), currentBattery,
                    IF path.success /\ better
                    THEN [found |-> TRUE, location |-> Head(locations), path |-> path]
                    ELSE best)

\* sampling that never recharges first
TakeSampleSteps_Direct(battery) ==
  IF battery >= 1
  THEN [ok |-> TRUE, commands |-> <<"S">>, battery |-> battery - 8]
  ELSE [ok |-> FALSE, commands |-> << >>, battery |-> battery]

\* the commands that sample at the reached cell, and the battery after them
TakeSampleSteps(battery) ==
  IF battery >= 8
  THEN [ok |-> TRUE, commands |-> <<"S">>, battery |-> battery - 8]
  ELSE IF battery >= 1
       THEN [ok |-> TRUE, commands |-> <<"E", "S">>, battery |-> (battery + 9) - 8]
       ELSE [ok |-> FALSE, commands |-> << >>, battery |-> battery]

\* the facing the commands of a leg leave the robot with
RECURSIVE ArrivalFacing(_, _)
ArrivalFacing(facing, commands) ==
  IF commands = << >> THEN facing
  ELSE ArrivalFacing(GetNewFacing(facing, Head(commands)), Tail(commands))

\* a planner that carries the facing the leg ends with
NextPosition_Arrival(currentPosition, bestLocation, commands) ==
  [x |-> bestLocation.x, y |-> bestLocation.y,
   facing |-> ArrivalFacing(currentPosition.facing, commands)]

\* currentPosition = { x: bestLocation.x, y: bestLocation.y, facing: ... }
NextPosition(currentPosition, bestLocation, commands) ==
  [x |-> bestLocation.x, y |-> bestLocation.y,
   facing |-> ParsePositionKey(GetPositionKey(currentPosition)).facing]

\* generateMissionPlan up to the for loop over the targets
StartPlan(start, initialBattery) ==
  [ phase |-> "running",
    start |-> start,
    initialBattery |-> initialBattery,
    targets |-> SortTargets(Targets, start),
    done |-> 0,           \* number of targets the loop is through with
    exited |-> FALSE,     \* the loop was left by break
    currentPosition |-> start,
    currentBattery |-> initialBattery,
    allCommands |-> << >>,
    success |-> TRUE ]

PlanTerrains ==
  {TerrainA, TerrainB, TerrainCell, TerrainRow, TerrainColumn, TerrainDetour, TerrainOpen}

PlanBatteries == (0..MaxBattery) \cup {LowTestBattery, TestBattery}

InitPlan ==
  /\ \E t \in PlanTerrains : input = [NoInput EXCEPT !.terrain = t]
  /\ \E start \in Positions(input.terrain), initialBattery \in PlanBatteries :
       /\ ~PathIsObstacle(start.location.x, start.location.y)
       /\ plan = StartPlan([x |-> start.location.x, y |-> start.location.y,
                            facing |-> start.facing], initialBattery)
  /\ robot = NoRobot
  /\ stack = << >>
  /\ i = 0
  /\ success = TRUE
  /\ pc = "plan"
  /\ result = "none"
  /\ calls = << >>
  /\ last = [command |-> "none", before |-> NoRobot, depth |-> 0, returns |-> "none"]
  /\ request = Request(input)
  /\ executions = 0
  /\ search = NoSearch

\* one pass of the body of the for loop over the targets
PlanLeg ==
  /\ pc = "plan"
  /\ plan.phase = "running"
  /\ ~plan.exited
  /\ plan.done < Len(plan.targets)
  /\ LET target == plan.targets[plan.done + 1]
         best == BestPath(plan.currentPosition, target.locations, plan.currentBattery, NoPath)
     IN  IF ~best.found
         THEN plan' = [plan EXCEPT !.success = FALSE, !.exited = TRUE]
         ELSE LET sample == TakeSampleSteps(best.path.battery)
              IN  IF ~sample.ok
                  THEN plan' = [plan EXCEPT !.allCommands = @ \o best.path.commands,
                                            !.currentBattery = best.path.battery,
                                            !.success = FALSE,
                                            !.exited = TRUE]
                  ELSE plan' = [plan EXCEPT
                                  !.allCommands = @ \o best.path.commands \o sample.commands,
                                  !.currentBattery = sample.battery,
                                  !.currentPosition =
                                     NextPosition(@, best.location, best.path.commands),
                                  !.done = @ + 1]
  /\ UNCHANGED <<input, robot, stack, i, success, pc, result, calls, last, request,
                 executions, search>>

\* return { commands: allCommands, battery: currentBattery, success }
PlanReturn ==
  /\ pc = "plan"
  /\ plan.phase = "running"
  /\ (plan.exited \/ plan.done = Len(plan.targets))
  /\ plan' = [plan EXCEPT !.phase = "returned"]
  /\ UNCHANGED <<input, robot, stack, i, success, pc, result, calls, last, request,
                 executions, search>>

\* the returned commands are given to a new robot on the same terrain, with
\* the pose and the battery the plan was made for
ExecutePlan ==
  /\ pc = "plan"
  /\ plan.phase = "returned"
  /\ (plan.success \/ Len(plan.allCommands) > 0)
  /\ input' = [ terrain |-> input.terrain,
                battery |-> plan.initialBattery,
                commands |-> plan.allCommands,
                initialPosition |->
                  [location |-> [x |-> plan.start.x, y |-> plan.start.y],
                   facing |-> plan.start.facing] ]
  /\ robot' = NewRobot(input'.battery, input'.initialPosition)
  /\ last' = [last EXCEPT !.before = robot']
  /\ i' = 0
  /\ success' = TRUE
  /\ pc' = "loop"
  /\ executions' = 1
  /\ UNCHANGED <<stack, result, calls, request, search, plan>>

NextPlan == PlanLeg \/ PlanReturn \/ ExecutePlan \/ ExecuteNext \/ StrategyStep \/ ReturnResult

SpecPlan == InitPlan /\ [][NextPlan]_vars

(***************************************************************************)
(* Vocabulary of the properties.  An invocation is a record of the         *)
(* history variables: the command, the robot before it and its outcome.    *)
(***************************************************************************)
IsMove(command) == command \in {"F", "B"}

\* the invocation got past the battery test and was dispatched
Dispatched(inv) ==
  /\ inv.command \in Commands
  /\ inv.before.battery >= GetBatteryConsumption(inv.command)

\* the battery does not cover the command
Short(inv) ==
  /\ inv.command \in Commands
  /\ inv.before.battery < GetBatteryConsumption(inv.command)

\* the destination of the move is an Obs cell or out of bounds
Blocked(r, command) ==
  /\ IsMove(command)
  /\ IsObstacle(GetNextPosition(r, command).x, GetNextPosition(r, command).y)

BlockedMove(inv) == Dispatched(inv) /\ Blocked(inv.before, inv.command)

LastCall == calls[Len(calls)]

StartCell == [X |-> input.initialPosition.location.x, Y |-> input.initialPosition.location.y]

Cell(r) == [X |-> r.position.x, Y |-> r.position.y]

Contains(cells, c) == \E k \in 1..Len(cells) : cells[k] = c

\* C1: the battery is never negative, whatever command was executed last,
\* at the top level, inside a backoff strategy or as an auto-recharge.
C1_BatteryNeverNegative == robot.battery >= 0

\* a command of a backoff strategy has consumed battery, in a run whose
\* first command was replaced by an auto-recharge
C1_Witness ==
  /\ last.depth > 0
  /\ last.returns = "true"
  /\ robot.battery < last.before.battery
  /\ Len(calls) = 2
  /\ Short(calls[1])
  /\ calls[1].returns = "true"

\* C2 (as claimed): when the sequence stops at a failing command, the result
\* is the snapshot of the robot as it was before that command.
C2_FailingCommandChangesNothing ==
  (pc = "done" /\ ~success) => result = GetResult(LastCall.before)

\* C3: the calls made are the commands of the list in order, no call follows
\* a call that returned false, and the result is the snapshot of the robot.
C3_InOrderStopAtFirstFailure ==
  /\ Len(calls) = i
  /\ i <= Len(input.commands)
  /\ \A k \in 1..Len(calls) : calls[k].command = input.commands[k]
  /\ \A k \in 1..(Len(calls) - 1) : calls[k].returns = "true"
  /\ pc = "done" =>
       /\ result = GetResult(robot)
       /\ LastCall.returns \in {"true", "false"}
       /\ LastCall.returns = "true" => Len(calls) = Len(input.commands)

\* the first command failed and the second one was never called
C3_Witness ==
  /\ pc = "done"
  /\ Len(calls) = 1
  /\ calls[1].returns = "false"
  /\ Len(input.commands) > 1

C4_State ==
  /\ \A a, b \in 1..Len(robot.visitedCells) :
       a # b => robot.visitedCells[a] # robot.visitedCells[b]
  /\ robot.visitedCells[1] = StartCell

C4_Step ==
  IF Contains(robot.visitedCells, Cell(robot'))
  THEN robot'.visitedCells = robot.visitedCells
  ELSE robot'.visitedCells = Append(robot.visitedCells, Cell(robot'))

\* C4: VisitedCells has no duplicates and starts with the start cell; a step
\* onto a visited cell leaves it unchanged, a step onto a new cell appends
\* that cell, so that the order is the order of first visits.
C4_VisitedCells == [](C4_State) /\ [][C4_Step]_vars

\* a move has just taken the robot onto a cell it had already visited
C4_Witness ==
  /\ IsMove(last.command)
  /\ last.returns = "true"
  /\ Cell(robot) # Cell(last.before)
  /\ Contains(last.before.visitedCells, Cell(robot))
  /\ Len(robot.visitedCells) >= 2

RightOf(facing) ==
  CASE facing = "North" -> "East"
    [] facing = "East"  -> "South"
    [] facing = "South" -> "West"
    [] facing = "West"  -> "North"

\* the robot turned to its right and moved one cell forward
RightHand(r) ==
  LET turned == [r EXCEPT !.position.facing = RightOf(@)]
      cell == GetNextPosition(turned, "F")
  IN  [turned EXCEPT !.position.x = cell.x, !.position.y = cell.y]

\* C7: a dispatched move that is blocked pays nothing and does not move; it
\* fails at once when no strategy is left and enters a strategy otherwise.
\* A blocked F called with backoffIndex 0 and the right-hand cell free
\* returns true with the robot on that cell, turned right, battery + 4,
\* backoffIndex 0.
C7_BlockedMove ==
  /\ BlockedMove(last) =>
        /\ robot.battery = last.before.battery
        /\ robot.position = last.before.position
        /\ robot.visitedCells = last.before.visitedCells
        /\ last.returns = (IF last.before.currentBackoffStrategy >= 7
                           THEN "false" ELSE "pending")
  /\ (/\ stack = << >>
      /\ calls # << >>
      /\ LastCall.command = "F"
      /\ BlockedMove(LastCall)
      /\ LastCall.before.currentBackoffStrategy = 0
      /\ ~IsObstacle(RightHand(LastCall.before).position.x,
                     RightHand(LastCall.before).position.y)) =>
        /\ LastCall.returns = "true"
        /\ robot.position = RightHand(LastCall.before).position
        /\ robot.battery = LastCall.before.battery + 4
        /\ robot.currentBackoffStrategy = 0
        /\ robot.samplesCollected = LastCall.before.samplesCollected

\* the run of the obstacle test: TerrainB, battery 50, (0,0) East, [F]
C7_Witness ==
  /\ pc = "done"
  /\ input.terrain = TerrainB
  /\ input.battery = TestBattery
  /\ input.commands = <<"F">>
  /\ BlockedMove(calls[1])
  /\ result.Battery = 54
  /\ result.FinalPosition = [Location |-> [X |-> 0, Y |-> 1], Facing |-> "South"]

\* C8: a dispatched blocked move with backoffIndex >= 7 returns false and
\* leaves the robot as it was.
C8_StrategiesExhausted ==
  (BlockedMove(last) /\ last.before.currentBackoffStrategy >= 7) =>
     (last.returns = "false" /\ robot = last.before)

\* a blocked move was dispatched with backoffIndex 7
C8_Witness ==
  /\ BlockedMove(last)
  /\ last.before.currentBackoffStrategy = 7
  /\ last.returns = "false"

\* on entry of a strategy: the index is already incremented, nothing else
\* has changed, and the strategy taken is the one the old index names
C9_Entry ==
  last.returns = "pending" =>
     /\ last.before.currentBackoffStrategy < 7
     /\ robot = [last.before EXCEPT !.currentBackoffStrategy = @ + 1]
     /\ Len(stack) = last.depth + 1
     /\ Top(stack) = [strategy |-> backoffStrategies[last.before.currentBackoffStrategy + 1],
                      next |-> 1]

\* a failed blocked move of the list has not given its strategy back
C9_NotRestored ==
  (/\ stack = << >>
   /\ calls # << >>
   /\ BlockedMove(LastCall)
   /\ LastCall.before.currentBackoffStrategy < 7
   /\ LastCall.returns = "false") =>
     robot.currentBackoffStrategy > LastCall.before.currentBackoffStrategy

\* one step of an active strategy: it invokes the command the loop is at;
\* on false every active strategy is abandoned and the call of the list
\* returns false with the index kept; on true the loop moves on by one
C9_Step ==
  stack # << >> =>
     LET f == Top(stack)
     IN  /\ last'.command = f.strategy[f.next]
         /\ last'.before = robot
         /\ last'.depth = Len(stack)
         /\ last'.returns = "false" =>
               /\ stack' = << >>
               /\ ~success'
               /\ calls'[Len(calls')].returns = "false"
               /\ robot'.currentBackoffStrategy = robot.currentBackoffStrategy
         /\ (last'.returns = "true" /\ f.next < Len(f.strategy)) =>
               stack' = Advance(stack)
         /\ last'.returns = "pending" =>
               Pop(stack') = Advance(stack)

\* C9: a blocked move with backoffIndex k < 7 increments the index before
\* the commands of strategy k run and does not restore it; the commands run
\* in order, and the first that fails ends the strategy and fails the move.
C9_BackoffRun == [](C9_Entry /\ C9_NotRestored) /\ [][C9_Step]_vars

\* a command of a strategy has failed
C9_Witness ==
  /\ last.depth > 0
  /\ last.returns = "false"
  /\ stack = << >>
  /\ LastCall.returns = "false"

\* C10 (as claimed): every dispatched blocked move enters a strategy, the
\* one after the strategy used before, the first one following the seventh.
C10_RoundRobin ==
  BlockedMove(last) =>
     /\ last.returns = "pending"
     /\ Top(stack).strategy =
          backoffStrategies[(last.before.currentBackoffStrategy % 7) + 1]

\* the invocation was dispatched and was not a blocked move: its command
\* was applied
Applied(inv) == Dispatched(inv) /\ ~Blocked(inv.before, inv.command)

\* the displacement of a forward step, by facing
StepX(facing) == CASE facing = "East" -> 1 [] facing = "West" -> -1 [] OTHER -> 0

StepY(facing) == CASE facing = "South" -> 1 [] facing = "North" -> -1 [] OTHER -> 0

\* C11: an applied move returns true, pays 3, moves one cell along (F) or
\* against (B) the facing, keeps the facing and the samples, has the cell in
\* VisitedCells and resets backoffIndex.
C11_FreeMove ==
  (IsMove(last.command) /\ Applied(last)) =>
     LET b == last.before
         sign == IF last.command = "F" THEN 1 ELSE -1
     IN  /\ last.returns = "true"
         /\ robot.battery = b.battery - 3
         /\ robot.position.x = b.position.x + sign * StepX(b.position.facing)
         /\ robot.position.y = b.position.y + sign * StepY(b.position.facing)
         /\ robot.position.facing = b.position.facing
         /\ ~IsObstacle(robot.position.x, robot.position.y)
         /\ Contains(robot.visitedCells, Cell(robot))
         /\ robot.visitedCells \in {b.visitedCells, Append(b.visitedCells, Cell(robot))}
         /\ robot.currentBackoffStrategy = 0
         /\ robot.samplesCollected = b.samplesCollected

\* a move inside a backoff strategy reached a free cell and reset the index
C11_Witness ==
  /\ IsMove(last.command)
  /\ Applied(last)
  /\ last.before.currentBackoffStrategy > 0
  /\ robot.currentBackoffStrategy = 0
  /\ Cell(robot) # Cell(last.before)

Delta(command) ==
  CASE command \in {"F", "B"} -> -3
    [] command \in {"L", "R"} -> -2
    [] command = "S" -> -8
    [] command = "E" -> 9

ExampleA ==
  /\ input.terrain = TerrainA
  /\ input.battery = TestBattery
  /\ input.initialPosition = [location |-> [x |-> 0, y |-> 0], facing |-> "East"]
  /\ input.commands = <<"F", "S", "R", "F">>

AfterCall(k) == IF k < Len(calls) THEN calls[k + 1].before ELSE robot

\* calls k .. k+n-1 of the list were all applied turns of the same kind
TurnsApplied(k, n, command) ==
  /\ k + n - 1 <= Len(calls)
  /\ \A j \in k..(k + n - 1) : calls[j].command = command /\ Dispatched(calls[j])

C16_Sample ==
  (last.command = "S" /\ Dispatched(last)) =>
     LET b == last.before
     IN  /\ last.returns = "true"
         /\ robot = [b EXCEPT !.battery = @ - 8,
                              !.samplesCollected =
                                 Append(@, terrain[b.position.y + 1][b.position.x + 1])]

\* a second sample of the same type was collected
C16_Witness ==
  /\ last.command = "S"
  /\ Dispatched(last)
  /\ Len(robot.samplesCollected) = 2
  /\ robot.samplesCollected[1] = robot.samplesCollected[2]

\* C17: a dispatched ExtendPanels (battery >= 1) returns true and adds 9 to
\* the battery, without a cap; nothing else changes.  From 5 it gives 14.
C17_ExtendPanels ==
  /\ (last.command = "E" /\ last.before.battery >= 1) =>
        /\ last.returns = "true"
        /\ robot = [last.before EXCEPT !.battery = @ + 9]
  /\ (last.command = "E" /\ last.before.battery = LowTestBattery) =>
        robot.battery = 14

\* the run of the solar panel test, and a recharge above the highest
\* battery a run starts with
C17_Witness ==
  /\ Len(calls) = 2
  /\ calls[1].command = "E"
  /\ calls[1].before.battery = LowTestBattery
  /\ calls[2].before.battery = 14
  /\ calls[2].command = "E"
  /\ robot.battery = 23

(***************************************************************************)
(* The conditions of a malformed request, stated on the request itself.    *)
(* A part that is absent counts as empty (terrain, commands) or missing    *)
(* (pose, location, coordinate); an absent battery is not a number and an  *)
(* absent facing is outside the four directions.                           *)
(***************************************************************************)
TerrainEmpty(req) ==
  \/ req.terrain.kind # "array"
  \/ \A k \in 1..Len(req.terrain.value) : Len(req.terrain.value[k]) = 0

RowsDiffer(req) ==
  /\ req.terrain.kind = "array"
  /\ \E j, k \in 1..Len(req.terrain.value) :
        Len(req.terrain.value[j]) # Len(req.terrain.value[k])

BatteryMalformed(req) ==
  \/ req.battery.kind # "number"
  \/ req.battery.value < 0

CommandsMalformed(req) ==
  \/ req.commands.kind # "array"
  \/ req.commands.value = << >>
  \/ \E k \in 1..Len(req.commands.value) : req.commands.value[k] \notin Commands

PoseMissing(req) ==
  \/ req.initialPosition.kind = "undefined"
  \/ req.initialPosition.value.location.kind = "undefined"
  \/ req.initialPosition.value.location.value.x.kind = "undefined"
  \/ req.initialPosition.value.location.value.y.kind = "undefined"

FacingMalformed(req) ==
  /\ req.initialPosition.kind # "undefined"
  /\ \/ req.initialPosition.value.facing.kind = "undefined"
     \/ req.initialPosition.value.facing.value \notin Facings

PoseOffTerrain(req) ==
  /\ ~TerrainEmpty(req) /\ ~RowsDiffer(req) /\ ~PoseMissing(req)
  /\ LET x == req.initialPosition.value.location.value.x.value
         y == req.initialPosition.value.location.value.y.value
     IN  \/ x \notin 0..(Len(req.terrain.value[1]) - 1)
         \/ y \notin 0..(Len(req.terrain.value) - 1)
         \/ req.terrain.value[y + 1][x + 1] = "Obs"

Malformed(req) ==
  \/ TerrainEmpty(req) \/ RowsDiffer(req)
  \/ BatteryMalformed(req)
  \/ CommandsMalformed(req)
  \/ PoseMissing(req) \/ FacingMalformed(req) \/ PoseOffTerrain(req)

ValidationErrors ==
  { "Terrain must be a non-empty 2D array",
    "Terrain must be a valid 2D array with consistent row lengths",
    "Battery must be a non-negative number",
    "Commands must be a non-empty array",
    "Commands must be one of: F, B, L, R, S, E",
    "Initial position is required",
    "Initial position must have valid x and y coordinates",
    "Initial position must have a valid facing direction",
    "Initial position is out of terrain bounds",
    "Initial position cannot be an obstacle" }

\* C13: runSimulation raises a validation error exactly when the request is
\* malformed (terrain empty or ragged, battery negative or not a number,
\* commands empty or with a foreign symbol, pose missing, off the terrain,
\* on an obstacle or with a foreign facing), and it raises it before a robot
\* is constructed and before any command is executed.
C13_Step ==
  pc = "validate" =>
    /\ (pc' = "threw") <=> Malformed(request)
    /\ pc' = "threw" =>
         /\ result' \in ValidationErrors
         /\ robot' = NoRobot
         /\ calls' = << >>
         /\ executions' = 0
    /\ pc' # "threw" => pc' = "loop" /\ robot' = NewRobot(input'.battery, input'.initialPosition)

C14_NeverRaises ==
  /\ pc = "threw" => ValidateInput(request) # "ok" /\ executions = 0
  /\ (pc = "done" /\ ~success) => result = GetResult(robot)

C14_Witness ==
  /\ pc = "done"
  /\ executions = 1
  /\ ~success
  /\ ValidateInput(request) = "ok"
  /\ result = GetResult(robot)
  /\ robot.currentBackoffStrategy = Len(backoffStrategies)

\* C18: the result returned by executeCommands is an immutable snapshot: while
\* later commands run on the same robot, the VisitedCells, SamplesCollected,
\* Battery and FinalPosition of the result returned earlier stay as returned.
C18_ImmutableSnapshot ==
  (pc = "loop" /\ executions > 1) => HeldResult(result, robot) = result

\* the battery stays above 0 after every command of the list, applied in order
RECURSIVE StaysPositive(_, _)
StaysPositive(battery, commands) ==
  \/ commands = << >>
  \/ /\ battery + Delta(Head(commands)) > 0
     /\ StaysPositive(battery + Delta(Head(commands)), Tail(commands))

Found == search.phase = "returned" /\ search.success

\* C19: for every findPath result with success = true, applying the battery
\* deltas of the returned commands in order from initialBattery (F/B -3,
\* L/R -2, E +9) keeps the battery above 0 after every command.
C19_BatteryStaysPositive ==
  Found => StaysPositive(search.initialBattery, search.commands)

(***************************************************************************)
(* Feasible sequences: every step turns, recharges, or moves into a cell   *)
(* of the terrain that is not an obstacle, and leaves the battery above 0. *)
(***************************************************************************)
FreeCell(x, y) ==
  /\ y \in 0..(Len(input.terrain) - 1)
  /\ x \in 0..(Len(input.terrain[1]) - 1)
  /\ input.terrain[y + 1][x + 1] # "Obs"

FeasibleSteps(st) ==
  { n \in { [st EXCEPT !.facing = RightOf(@), !.battery = @ + Delta("R")],
            [st EXCEPT !.facing = RightOf(RightOf(RightOf(@))), !.battery = @ + Delta("L")],
            [st EXCEPT !.x = @ + StepX(st.facing), !.y = @ + StepY(st.facing),
                       !.battery = @ + Delta("F")],
            [st EXCEPT !.x = @ - StepX(st.facing), !.y = @ - StepY(st.facing),
                       !.battery = @ + Delta("B")],
            [st EXCEPT !.battery = @ + Delta("E")] } :
      n.battery > 0 /\ FreeCell(n.x, n.y) }

\* the states some feasible sequence of at most k commands ends in
RECURSIVE FeasibleWithin(_, _)
FeasibleWithin(k, states) ==
  IF k <= 0 THEN states
  ELSE FeasibleWithin(k - 1, states \cup UNION {FeasibleSteps(st) : st \in states})

StartState ==
  [x |-> search.start.x, y |-> search.start.y, facing |-> search.start.facing,
   battery |-> search.initialBattery]

ObstacleFree ==
  \A y \in 1..Len(input.terrain) : \A x \in 1..Len(input.terrain[1]) :
     input.terrain[y][x] # "Obs"

Returned == search.phase = "returned"

\* the target lies on the line the start pose moves along, forward or backward
OnAxis ==
  IF search.start.facing \in {"East", "West"}
  THEN search.target.y = search.start.y
  ELSE search.target.x = search.start.x

\* C21 as stated: on an obstacle-free grid with ample battery findPath returns
\* success = true with as many commands as the Manhattan distance between
\* start and target, for every start pose and target cell.
C21_ManhattanLength ==
  (Returned /\ ObstacleFree /\ search.initialBattery = TestBattery) =>
     /\ search.success
     /\ Len(search.commands) = ManhattanDistance(search.start, search.target)

\* C21: on an obstacle-free grid with ample battery findPath returns
\* success = true; the number of commands is the Manhattan distance when the
\* target lies on the line of the start facing, and one more (a turn)
\* otherwise.
C21_ManhattanPlusTurn ==
  (Returned /\ ObstacleFree /\ search.initialBattery = TestBattery) =>
     /\ search.success
     /\ Len(search.commands) =
          ManhattanDistance(search.start, search.target) + (IF OnAxis THEN 0 ELSE 1)

C21_Witness ==
  /\ Found
  /\ input.terrain = TerrainOpen
  /\ search.initialBattery = TestBattery
  /\ search.start.x # search.target.x
  /\ search.start.y # search.target.y
  /\ Len(search.commands) = 5

(***************************************************************************)
(* Every state a feasible sequence of any length ends in.  A battery above *)
(* BatteryCap is counted as BatteryCap: no step costs more than 3, and a   *)
(* larger battery allows whatever a smaller one allows.                    *)
(***************************************************************************)
BatteryCap == 12

Capped(st) == [st EXCEPT !.battery = IF @ > BatteryCap THEN BatteryCap ELSE @]

RECURSIVE FeasibleClosure(_, _)
FeasibleClosure(seen, frontier) ==
  IF frontier = {} THEN seen
  ELSE LET next == {Capped(n) : n \in UNION {FeasibleSteps(st) : st \in frontier}} \ seen
       IN  FeasibleClosure(seen \cup next, next)

OnTarget(st) == st.x = search.target.x /\ st.y = search.target.y

FeasiblyReachable ==
  \E st \in FeasibleClosure({Capped(StartState)}, {Capped(StartState)}) : OnTarget(st)

\* no feasible sequence without ExtendPanels reaches the target
RECURSIVE ClosureWithoutE(_, _)
ClosureWithoutE(seen, frontier) ==
  IF frontier = {} THEN seen
  ELSE LET next == UNION {{n \in FeasibleSteps(st) : n.battery < st.battery} : st \in frontier}
                     \ seen
       IN  ClosureWithoutE(seen \cup next, next)

NeedsRecharge ==
  /\ FeasiblyReachable
  /\ \A st \in ClosureWithoutE({StartState}, {StartState}) : ~OnTarget(st)

KeyOnTarget(key) == key[1] = search.target.x /\ key[2] = search.target.y

\* C23: findPath returns success = false only when its open set has become
\* empty and no position on the target cell was ever dequeued; the result
\* then has no commands and the battery it was called with; findPath does
\* not throw.
C23_Step ==
  (search.phase = "running" /\ search'.phase = "returned" /\ ~search'.success) =>
     /\ search.openSet.elements = << >>
     /\ \A key \in search.closedSet : ~KeyOnTarget(key)
     /\ search'.commands = << >>
     /\ search'.battery = search.initialBattery

C23_FailureOnlyWhenExhausted ==
  /\ [](pc # "threw")
  /\ []((Returned /\ ~search.success) =>
          search.commands = << >> /\ search.battery = search.initialBattery)
  /\ [][C23_Step]_vars

C23_Witness ==
  /\ Returned
  /\ ~search.success
  /\ search.commands = << >>
  /\ search.battery = search.initialBattery
  /\ Cardinality(search.closedSet) >= 4
  /\ ~PathIsObstacle(search.target.x, search.target.y)

(***************************************************************************)
(* The returned commands executed one after the other on a robot: the      *)
(* robot reached as long as every command is applied as itself, neither    *)
(* replaced by ExtendPanels nor blocked.                                   *)
(***************************************************************************)
RECURSIVE Replay(_, _)
Replay(r, commands) ==
  IF commands = << >> THEN [robot |-> r, clean |-> TRUE]
  ELSE IF \/ r.battery < GetBatteryConsumption(Head(commands))
          \/ Blocked(r, Head(commands))
       THEN [robot |-> r, clean |-> FALSE]
       ELSE Replay(ExecuteCommand(r, Head(commands)).robot, Tail(commands))

StartRobot ==
  NewRobot(search.initialBattery,
           [location |-> [x |-> search.start.x, y |-> search.start.y],
            facing |-> search.start.facing])

\* C29: the commands of a findPath result with success = true, executed on a
\* robot with the same terrain, start pose and battery, are all applied as
\* themselves (none blocked, none replaced by a recharge) and leave the robot
\* on the target cell with the battery the result reports.
C29_ReplayAgrees ==
  Found =>
    LET run == Replay(StartRobot, search.commands)
    IN  /\ run.clean
        /\ run.robot.position.x = search.target.x
        /\ run.robot.position.y = search.target.y
        /\ run.robot.battery = search.battery

OpenKeys == {search.openSet.elements[k] : k \in 1..Len(search.openSet.elements)}

\* C30: every dequeue of findPath hands out an open position whose current
\* f-score is the lowest of the open set, also after the g-score of a
\* position in the open set has been lowered.
C30_DequeueLowestF ==
  (search.phase = "running" /\ search.openSet.elements # << >>) =>
     \A key \in OpenKeys :
        search.fScore[Head(search.openSet.elements)] <= search.fScore[key]

\* a position of the open set whose f-score is no longer its priority
LoweredInOpenSet ==
  /\ search.phase = "running"
  /\ \E key \in OpenKeys : search.fScore[key] # search.openSet.priorities[key]

\* the number of entries of the sequence that are e
RECURSIVE Count(_, _)
Count(seq, e) ==
  IF seq = << >> THEN 0
  ELSE (IF Head(seq) = e THEN 1 ELSE 0) + Count(Tail(seq), e)

\* the distinct terrain types of the map other than Obs
TypesPresent ==
  {input.terrain[y][x] : y \in 1..Len(input.terrain), x \in 1..Len(input.terrain[1])}
    \ {"Obs"}

PlanExecuted == plan.phase = "returned" /\ pc = "done"

\* C24: when generateMissionPlan returns success = true, the returned
\* commands executed on a robot with the same terrain, start pose and battery
\* give SamplesCollected with exactly one sample of every distinct terrain
\* type of the map other than Obs, and nothing else.
C24_PlanCollectsEveryType ==
  (PlanExecuted /\ plan.success) =>
     /\ \A type \in TypesPresent : Count(result.SamplesCollected, type) = 1
     /\ Len(result.SamplesCollected) = Cardinality(TypesPresent)

\* the distance from the original start position to the nearest occurrence
NearestFromStart(target) == MinDistance(plan.start, target.locations)

Planning == plan.phase \in {"running", "returned"}

\* C25: generateMissionPlan goes through the distinct terrain types other
\* than Obs, each once, in ascending order of the Manhattan distance from the
\* original start position to the nearest occurrence of the type; the order
\* is fixed before the first leg and a leg takes the next type of that order.
C25_State ==
  Planning =>
     /\ {plan.targets[k].type : k \in 1..Len(plan.targets)} = TypesPresent
     /\ Len(plan.targets) = Cardinality(TypesPresent)
     /\ \A j, k \in 1..Len(plan.targets) :
          j < k => NearestFromStart(plan.targets[j]) <= NearestFromStart(plan.targets[k])

C25_Step ==
  (Planning /\ plan'.phase \in {"running", "returned"}) =>
     /\ plan'.targets = plan.targets
     /\ plan'.start = plan.start
     /\ plan'.done \in {plan.done, plan.done + 1}

C25_OrderByStartDistance == [](C25_State) /\ [][C25_Step]_vars

\* after a leg the next type is not the nearest to the simulated position
C25_Witness ==
  /\ plan.phase = "running"
  /\ plan.done >= 1
  /\ plan.done + 1 < Len(plan.targets)
  /\ plan.currentPosition # plan.start
  /\ MinDistance(plan.currentPosition, plan.targets[plan.done + 1].locations)
       > MinDistance(plan.currentPosition, plan.targets[plan.done + 2].locations)

\* a pass of the loop over the targets: the step from plan to plan'
LegStep == plan.phase = "running" /\ plan'.phase = "running" /\ plan' # plan

LegTarget == plan.targets[plan.done + 1]

\* the results of findPath from the simulated pose to every occurrence
LegPaths ==
  [k \in 1..Len(LegTarget.locations) |->
     FindPath(plan.currentPosition, LegTarget.locations[k], plan.currentBattery)]

Successful == {k \in DOMAIN LegPaths : LegPaths[k].success}

IsPrefix(p, seq) == Len(p) <= Len(seq) /\ SubSeq(seq, 1, Len(p)) = p

\* C26: a leg appends the commands of a successful findPath result, from the
\* simulated pose to an occurrence of the type, that has the fewest commands
\* among the successful ones; if no occurrence has a successful result the
\* plan fails at once and returns exactly the commands of the earlier types.
C26_Step ==
  /\ LegStep =>
       IF Successful = {}
       THEN /\ ~plan'.success
            /\ plan'.exited
            /\ plan'.allCommands = plan.allCommands
       ELSE \E k \in Successful :
              /\ \A j \in Successful :
                    Len(LegPaths[k].commands) <= Len(LegPaths[j].commands)
              /\ IsPrefix(plan.allCommands \o LegPaths[k].commands, plan'.allCommands)
  /\ (plan.phase = "running" /\ plan.exited /\ plan' # plan) =>
       plan' = [plan EXCEPT !.phase = "returned"]

C26_BestLeg == [][C26_Step]_vars

\* a later type cannot be reached: the plan fails with the earlier commands
C26_Witness ==
  /\ plan.phase = "returned"
  /\ pc = "plan"
  /\ ~plan.success
  /\ plan.done >= 1
  /\ Len(plan.allCommands) > 0
  /\ \A k \in 1..Len(plan.targets[plan.done + 1].locations) :
        ~FindPath(plan.currentPosition, plan.targets[plan.done + 1].locations[k],
                  plan.currentBattery).success

\* C27: after a successful leg the plan appends S alone when the simulated
\* battery is at least 8, E then S when it is at least 1 and below 8, and
\* otherwise fails and stops; a plan with success = true holds exactly one S
\* for every distinct terrain type other than Obs.
C27_Step ==
  (LegStep /\ Successful # {}) =>
     \E k \in Successful :
        LET path == LegPaths[k]
            walked == plan.allCommands \o path.commands
        IN  /\ \A j \in Successful : Len(path.commands) <= Len(LegPaths[j].commands)
            /\ IsPrefix(walked, plan'.allCommands)
            /\ CASE path.battery >= 8 ->
                      /\ plan'.allCommands = walked \o <<"S">>
                      /\ plan'.currentBattery = path.battery - 8
                      /\ ~plan'.exited /\ plan'.success
                 [] path.battery >= 1 /\ path.battery < 8 ->
                      /\ plan'.allCommands = walked \o <<"E", "S">>
                      /\ plan'.currentBattery = path.battery + 1
                      /\ ~plan'.exited /\ plan'.success
                 [] OTHER ->
                      /\ plan'.exited /\ ~plan'.success
                      /\ Count(plan'.allCommands, "S") = Count(plan.allCommands, "S")

C27_SampleAfterLeg ==
  /\ []((plan.phase = "returned" /\ plan.success) =>
          Count(plan.allCommands, "S") = Cardinality(TypesPresent))
  /\ [][C27_Step]_vars

\* a full plan with legs of both kinds
C27_Witness ==
  /\ plan.phase = "returned"
  /\ plan.success
  /\ Cardinality(TypesPresent) >= 4
  /\ Count(plan.allCommands, "S") = Cardinality(TypesPresent)
  /\ Count(plan.allCommands, "E") \in 1..(Cardinality(TypesPresent) - 1)

\* C28: after each leg the planner puts its simulated position on the cell
\* the leg reached and keeps the facing of the original start pose for the
\* next leg, whatever facing the commands so far leave the robot with.
C28_Step ==
  (LegStep /\ plan'.done = plan.done + 1) =>
     /\ \E k \in Successful :
          /\ plan'.currentPosition.x = LegTarget.locations[k].x
          /\ plan'.currentPosition.y = LegTarget.locations[k].y
          /\ IsPrefix(plan.allCommands \o LegPaths[k].commands, plan'.allCommands)
     /\ plan'.currentPosition.facing = plan.start.facing

C28_KeepsStartFacing ==
  /\ [](Planning => plan.currentPosition.facing = plan.start.facing)
  /\ [][C28_Step]_vars

\* the commands so far turn the robot away from the start facing, and a
\* further leg is searched from the start facing
C28_Witness ==
  /\ plan.phase = "running"
  /\ plan.done >= 2
  /\ plan.done < Len(plan.targets)
  /\ plan.currentPosition.facing = plan.start.facing
  /\ ArrivalFacing(plan.start.facing, plan.allCommands) # plan.start.facing
  /\ <<plan.currentPosition.x, plan.currentPosition.y>> # <<plan.start.x, plan.start.y>>

\* the poses findPath can generate on the terrain: free cells, any facing
FreePoses ==
  {[x |-> c.x, y |-> c.y, facing |-> f] : c \in Cells(input.terrain), f \in Facings}

Searching == search.phase \in {"running", "returned"}

\* C31: for every terrain and target a search starts with, the heuristic of
\* findPath is 0 on every pose on the target cell and does not drop by more
\* than 1 along any edge (L, R, F, B, E) of the command graph; it never
\* exceeds the number of commands of a returned path.
C31_HeuristicConsistent ==
  Searching =>
     /\ search.closedSet = {} => \A n \in FreePoses :
          /\ (n.x = search.target.x /\ n.y = search.target.y) =>
                Heuristic(n, search.target) = 0
          /\ ~PathIsObstacle(n.x, n.y) =>
                \A k \in 1..Len(GetPossibleMoves(n)) :
                   Heuristic(n, search.target)
                     <= 1 + Heuristic(GetPossibleMoves(n)[k].position, search.target)
     /\ Found => Heuristic(search.start, search.target) <= Len(search.commands)

\* a path that is exactly as long as the heuristic of its start
C31_Witness ==
  /\ Found
  /\ Len(search.commands) = Heuristic(search.start, search.target)
  /\ Len(search.commands) >= 2

GridCells == Len(input.terrain) * Len(input.terrain[1])

\* an iteration of the while loop that expands the dequeued pose
ExpandStep == search.phase = "running" /\ search'.phase = "running" /\ search' # search

\* C32: findPath terminates for every terrain, start pose, target and
\* battery; a pose (x, y, facing) is dequeued and expanded at most once, so
\* there are at most 4 times the number of grid cells expansions.
C32_Step ==
  ExpandStep =>
     /\ Head(search.openSet.elements) \notin search.closedSet
     /\ search'.closedSet = search.closedSet \cup {Head(search.openSet.elements)}
     /\ \A k \in 1..Len(search'.openSet.elements) :
           search'.openSet.elements[k] \notin search'.closedSet

C32_Terminates ==
  /\ <>(search.phase = "returned")
  /\ [](Searching => Cardinality(search.closedSet) <= 4 * GridCells)
  /\ [][C32_Step]_vars

\* a search that expanded every pose of a terrain of free cells
C32_Witness ==
  /\ Returned
  /\ ~search.success
  /\ input.terrain = TerrainColumn
  /\ Cardinality(search.closedSet) >= 4

(***************************************************************************)
(* The robot's loops go on as long as they can: executeCommands,           *)
(* executeCommand and applyBackoffStrategy wait for nothing.               *)
(***************************************************************************)
SpecReuseFair == SpecReuse /\ WF_vars(ExecuteNext \/ StrategyStep \/ ReturnResult)

\* an executeCommand call of the executeCommands loop has not returned yet
InCall == pc = "loop" /\ stack # << >>

\* C33: every executeCommand call terminates, whatever commands the robot has
\* run before, and the applyBackoffStrategy calls active inside one another
\* are never more than 7.
C33_Terminates ==
  /\ [](Len(stack) <= 7)
  /\ (InCall ~> ~InCall)

C33_Witness ==
  /\ executions = 2
  /\ pc = "loop"
  /\ Len(stack) = 7
  /\ last.depth = 6

\* C34: the robot is always on a cell of the terrain that is not Obs, every
\* visited cell is such a cell, the robot's cell is among the visited cells,
\* and no collected sample is Obs.
C34_OnFreeCells ==
  /\ FreeCell(robot.position.x, robot.position.y)
  /\ \A k \in 1..Len(robot.visitedCells) :
        FreeCell(robot.visitedCells[k].X, robot.visitedCells[k].Y)
  /\ Contains(robot.visitedCells, Cell(robot))
  /\ \A k \in 1..Len(robot.samplesCollected) : robot.samplesCollected[k] # "Obs"

\* a run next to an Obs cell: a blocked move, a move made and a sample taken
C34_Witness ==
  /\ pc = "done"
  /\ \E k \in 1..Len(calls) :
        /\ BlockedMove(calls[k])
        /\ ~OutOfBounds(GetNextPosition(calls[k].before, calls[k].command).x,
                        GetNextPosition(calls[k].before, calls[k].command).y)
  /\ Len(robot.visitedCells) >= 2
  /\ Len(robot.samplesCollected) >= 1

\* every executeCommand call made by the executeCommands loop has returned
TopLevelReturned == stack = << >> /\ pc \in {"loop", "done"}

\* C35: whenever a call of executeCommand made by executeCommands has
\* returned, backoffIndex is 0 or 7, and every command of the sequence given
\* to executeCommands started with backoffIndex 0.
C35_IndexZeroOrSeven ==
  /\ TopLevelReturned => robot.currentBackoffStrategy \in {0, 7}
  /\ \A k \in 1..Len(calls) : calls[k].before.currentBackoffStrategy = 0

\* the cell next to the robot in the given direction is a cell of the terrain
\* that is not Obs
NeighbourFree(r, facing) ==
  FreeCell(r.position.x + StepX(facing), r.position.y + StepY(facing))

Opposite(facing) == RightOf(RightOf(facing))

LeftOf(facing) == RightOf(Opposite(facing))

\* the last command of the sequence was a blocked move dispatched with
\* backoffIndex 0, and it has returned
BlockedFromZero(command) ==
  /\ stack = << >>
  /\ pc \in {"loop", "done"}
  /\ calls # << >>
  /\ LastCall.command = command
  /\ BlockedMove(LastCall)
  /\ LastCall.before.currentBackoffStrategy = 0

\* C36: a blocked F dispatched with backoffIndex 0 returns true exactly when
\* the cell to the right of the robot or the cell behind it is free; a blocked
\* B returns true exactly when the cell to the right or the cell in front is
\* free.  A free cell to the left is never used.
C36_BackoffSucceedsIff ==
  /\ BlockedFromZero("F") =>
       (LastCall.returns = "true") =
          (\/ NeighbourFree(LastCall.before, RightOf(LastCall.before.position.facing))
           \/ NeighbourFree(LastCall.before, Opposite(LastCall.before.position.facing)))
  /\ BlockedFromZero("B") =>
       (LastCall.returns = "true") =
          (\/ NeighbourFree(LastCall.before, RightOf(LastCall.before.position.facing))
           \/ NeighbourFree(LastCall.before, LastCall.before.position.facing))
  /\ \A command \in {"F", "B"} :
       (/\ BlockedFromZero(command)
        /\ ~NeighbourFree(LastCall.before, RightOf(LastCall.before.position.facing))
        /\ ~NeighbourFree(LastCall.before, LastCall.before.position.facing)
        /\ ~NeighbourFree(LastCall.before, Opposite(LastCall.before.position.facing))) =>
          LastCall.returns = "false"

\* a blocked F whose only free neighbour is on the left has failed
C36_Witness ==
  /\ BlockedFromZero("F")
  /\ NeighbourFree(LastCall.before, LeftOf(LastCall.before.position.facing))
  /\ ~NeighbourFree(LastCall.before, RightOf(LastCall.before.position.facing))
  /\ ~NeighbourFree(LastCall.before, Opposite(LastCall.before.position.facing))
  /\ LastCall.returns = "false"
  /\ pc = "done"

\* C37: a blocked F or B dispatched with backoffIndex 0 that fails leaves the
\* robot on its cell, facing the opposite direction, with 55 more battery
\* (seven E, four turns) and backoffIndex 7; nothing is rolled back.
C37_FailedBackoffKept ==
  \A command \in {"F", "B"} :
    (BlockedFromZero(command) /\ LastCall.returns = "false") =>
       /\ robot.position.x = LastCall.before.position.x
       /\ robot.position.y = LastCall.before.position.y
       /\ robot.position.facing = Opposite(LastCall.before.position.facing)
       /\ robot.battery = LastCall.before.battery + 55
       /\ robot.currentBackoffStrategy = 7
       /\ robot.visitedCells = LastCall.before.visitedCells
       /\ robot.samplesCollected = LastCall.before.samplesCollected
       /\ pc = "done" =>
            /\ result.Battery = LastCall.before.battery + 55
            /\ result.FinalPosition.Facing = Opposite(LastCall.before.position.facing)

\* a blocked B that failed, after an earlier command of the same sequence
C37_Witness ==
  /\ BlockedFromZero("B")
  /\ LastCall.returns = "false"
  /\ Len(calls) = 2
  /\ pc = "done"
  /\ result.Battery = LastCall.before.battery + 55

\* C38: no findPath result contains E or S, and the battery it returns is
\* initialBattery minus 3 for every F and B and minus 2 for every L and R of
\* the returned commands.
C38_NoRechargeInPath ==
  Returned =>
     /\ ~SeqContains(search.commands, "E")
     /\ ~SeqContains(search.commands, "S")
     /\ search.battery = search.initialBattery
                            - 3 * (Count(search.commands, "F") + Count(search.commands, "B"))
                            - 2 * (Count(search.commands, "L") + Count(search.commands, "R"))

RECURSIVE SumDelta(_)
SumDelta(commands) ==
  IF commands = << >> THEN 0 ELSE Delta(Head(commands)) + SumDelta(Tail(commands))

\* C39: the battery generateMissionPlan returns, with success true or false,
\* is initialBattery plus the battery deltas of the returned commands
\* (F/B -3, L/R -2, S -8, E +9), and it is not negative.
C39_PlanBattery ==
  plan.phase = "returned" =>
     /\ plan.currentBattery = plan.initialBattery + SumDelta(plan.allCommands)
     /\ plan.currentBattery >= 0

====
